---- MODULE Spec2Model ----
(***************************************************************************)
(* Transfer classification and aggregation pipeline of the fraud           *)
(* assessment dashboard (src/BASIC_ASSESMENT.py).                          *)
(*                                                                         *)
(* A DataFrame is a sequence of rows, a row is a record whose fields are   *)
(* the columns; pd.DataFrame() is the empty sequence.  A block_timestamp   *)
(* is a number of hours, a date is the number of its day.                  *)
(***************************************************************************)
EXTENDS Integers, Sequences, FiniteSets, TLC

VARIABLES
    store_suspicious,   \* rows of the table "suspicious_tokens_directory"
    store_safe,         \* rows of the table "safe_tokens"
    transfers_df,       \* the caller's transfer DataFrame (the object passed in)
    arg_df,             \* the value of transfers_df when the call was made
    pc,                 \* "call" before the operation, "done" after it
    op,                 \* the operation that ran
    ret,                \* what the operation returned
    raised,             \* an exception left the operation
    supabase,           \* the store client of the module, or None
    arg_blockchain,     \* the blockchain argument of a loader or of the fetch
    collected,          \* all_data of the running loader: the rows collected
    current_page,       \* the page a loader requests next
    alchemy,            \* what the Transfer Source answers to the fetch
    session_state,      \* st.session_state: the cookies of the session
    arg_address,        \* the text of the address input of the page
    searches,           \* the calls of add_to_search_history so far
    shown               \* the Recent Transfers table the last run rendered

\* the variables of the Directory Repository and of the Transfer Source
collab_vars == <<supabase, arg_blockchain, collected, current_page, alchemy>>

\* the variables of the page and of its session
ui_vars == <<session_state, arg_address, searches, shown>>

vars == <<store_suspicious, store_safe, transfers_df, arg_df, pc, op, ret,
          raised, supabase, arg_blockchain, collected, current_page, alchemy,
          session_state, arg_address, searches, shown>>

---------------------------------------------------------------------------
(* Bounds of the model *)

MaxTransfers == 2
MaxStoreRows == 2
MaxTopLen == 6
MaxSentinelRows == 1
MaxSentinelTransfers == 1
MaxTableRows == 5
\* the page size of the loaders (1000) and the cap of the fetch (100), scaled
page_size == 2
FetchCap == 2
\* the limit of the search history (100), scaled, and the calls of a session
HistoryCap == 3
MaxCalls == 4
\* the transfers a search of the page finds, at most
MaxFound == 11
\* the searches of a session of the page
MaxSearches == 2

(* Program constants *)

TopN == 5
HoursPerDay == 24
transfers_per_page == 5
MockTransfers == 20

---------------------------------------------------------------------------
(* Value domains *)

Addresses == {"0xabc", "0xABC", "0xdef"}
PipelineAddresses == {"0xABC", "0xdef"}
TopAddresses == <<"0xa1", "0xa2", "0xa3", "0xa4", "0xa5", "0xa6", "0xa7">>
Stamps == {10, 20, 30}
FraudTypes == {"Phishing", "Fake Native"}
TagOrder == <<"Fake Native", "No Detail", "Phishing", "Unknown">>

\* Python's None
None == [none |-> TRUE]

\* a session with no cookie and a page that has rendered nothing
InitPage ==
    /\ session_state = << >>
    /\ arg_address = ""
    /\ searches = << >>
    /\ shown = None

\* the client of the store: the requests for the pages raises_on raise
Client(pages) == [raises_on |-> pages]
EmptyDF == << >>

\* str.lower() on the strings of the model
Lower(s) ==
    CASE s = "0xABC" -> "0xabc"
      [] s = "0xDEF" -> "0xdef"
      [] s = "Ethereum" -> "ethereum"
      [] OTHER -> s

---------------------------------------------------------------------------
(* Sequence helpers *)

\* the values of a column, as a set
ColumnValues(df, col) == {df[i][col] : i \in 1..Len(df)}

\* Series.nunique()
NUnique(df, col) == Cardinality(ColumnValues(df, col))

RECURSIVE SortedAsc(_)
\* the numbers of S in ascending order
SortedAsc(S) ==
    IF S = {} THEN << >>
    ELSE LET m == CHOOSE x \in S : \A y \in S : x <= y
         IN  <<m>> \o SortedAsc(S \ {m})

\* the row restricted to the columns cols: df[[...]]
Project(r, cols) == [c \in cols |-> r[c]]

\* A mutant of the sentinel substitution: the missing column is filled with
\* the empty string, whatever the documented sentinel is.
WithDefaultEmpty(df, col, val) ==
    [i \in 1..Len(df) |->
        IF col \in DOMAIN df[i] THEN df[i] ELSE df[i] @@ (col :> "")]

\* df[col] = val when col is not among df.columns
WithDefault(df, col, val) ==
    [i \in 1..Len(df) |->
        IF col \in DOMAIN df[i] THEN df[i] ELSE df[i] @@ (col :> val)]

\* df.drop(columns=[col])
DropColumn(df, col) ==
    [i \in 1..Len(df) |-> Project(df[i], DOMAIN df[i] \ {col})]

\* df[col] = df[col].str.lower()
LowerAddresses(df) ==
    [i \in 1..Len(df) |->
        [df[i] EXCEPT !.contract_address = Lower(df[i].contract_address)]]

\* df.drop_duplicates(subset=['contract_address']): the first row of every
\* contract_address value is kept, the values compared as they are
drop_duplicates(df) ==
    LET first(i) == \A j \in 1..(i - 1) :
                        df[j].contract_address # df[i].contract_address
        RECURSIVE keep(_)
        keep(i) == IF i > Len(df) THEN << >>
                   ELSE (IF first(i) THEN <<df[i]>> ELSE << >>) \o keep(i + 1)
    IN  keep(1)

---------------------------------------------------------------------------
(* Directory Repository: the two loaders *)

SuspiciousColumns ==
    {"contract_address", "blockchain", "tag", "tag_1",
     "created_block_timestamp", "name"}
SafeColumns == {"contract_address", "blockchain", "tag", "tag_1"}

\* .eq("blockchain", blockchain.lower()), all pages collected
FetchRows(table, blockchain) ==
    SelectSeq(table, LAMBDA r : r.blockchain = Lower(blockchain))

\* lines 107-136: the DataFrame the suspicious loader makes of the rows
\* collected
SuspiciousFrame(all_data) ==
    LET df1 == WithDefault(all_data, "tag_1", "Unknown")
        df2 == WithDefault(df1, "tag", "Unknown")
        df3 == WithDefault(df2, "created_block_timestamp", "")
        df4 == DropColumn(df3, "created_blocktime_stamp")
        df5 == WithDefault(df4, "name", "")
        df6 == drop_duplicates(df5)
    IN  IF all_data = << >> THEN EmptyDF
        ELSE IF "contract_address" \notin DOMAIN all_data[1]
             THEN EmptyDF          \* KeyError, caught: line 137
        ELSE [i \in 1..Len(df6) |-> Project(df6[i], SuspiciousColumns)]

\* lines 171-185: the DataFrame the safe loader makes of the rows collected
SafeFrame(all_data) ==
    LET df1 == WithDefault(all_data, "tag_1", "No Detail")
    IN  IF all_data = << >> THEN EmptyDF
        ELSE IF ~({"contract_address", "tag"} \subseteq DOMAIN all_data[1])
             THEN EmptyDF          \* KeyError, caught: line 187
        ELSE [i \in 1..Len(df1) |-> Project(df1[i], SafeColumns)]

\* the loaders with a store that answers every page: the pages hold the rows
\* of the chain, each once and in order
load_suspicious_tokens_by_blockchain(table, blockchain) ==
    SuspiciousFrame(FetchRows(table, blockchain))

load_safe_tokens_by_blockchain(table, blockchain) ==
    SafeFrame(FetchRows(table, blockchain))

---------------------------------------------------------------------------
(* Classifier *)

\* the row pd.merge makes of a transfer row t and a directory row d that
\* agree on contract_address; the column both have, blockchain, is suffixed
JoinRow(t, d) ==
    LET cols == ((DOMAIN t \cup DOMAIN d) \ {"blockchain"})
                    \cup {"blockchain_x", "blockchain_y"}
    IN  [c \in cols |->
            IF c = "blockchain_x" THEN t.blockchain
            ELSE IF c = "blockchain_y" THEN d.blockchain
            ELSE IF c \in DOMAIN t THEN t[c]
            ELSE d[c]]

\* A mutant of the merge: a transfer without a directory row is kept (how='left').
MergeLeft(left, right) ==
    LET matches(t) ==
            SelectSeq(right, LAMBDA d : d.contract_address = t.contract_address)
        RECURSIVE rows(_)
        rows(i) ==
            IF i > Len(left) THEN << >>
            ELSE (IF matches(left[i]) = << >>
                  THEN <<left[i] @@ [tag |-> "Unknown", tag_1 |-> "Unknown"]>>
                  ELSE [j \in 1..Len(matches(left[i])) |->
                            JoinRow(left[i], matches(left[i])[j])])
                 \o rows(i + 1)
    IN  rows(1)

\* pd.merge(left, right, on=['contract_address'], how='inner'): for every
\* left row in order, one row per right row with the same key, in right order
MergeInner(left, right) ==
    LET matches(t) ==
            SelectSeq(right, LAMBDA d : d.contract_address = t.contract_address)
        RECURSIVE rows(_)
        rows(i) ==
            IF i > Len(left) THEN << >>
            ELSE [j \in 1..Len(matches(left[i])) |->
                      JoinRow(left[i], matches(left[i])[j])]
                 \o rows(i + 1)
    IN  rows(1)

\* A mutant of identify_suspicious_transfers: the transfers are not lowercased.
identify_suspicious_no_lower(df, table) ==
    LET suspicious_tokens ==
            load_suspicious_tokens_by_blockchain(table, df[1].blockchain)
    IN  IF df = << >> THEN [ret |-> EmptyDF, df |-> df]
        ELSE IF suspicious_tokens = << >> THEN [ret |-> EmptyDF, df |-> df]
        ELSE [ret |-> MergeInner(df, LowerAddresses(suspicious_tokens)),
              df  |-> df]

\* identify_suspicious_transfers(transfers_df): what it returns (ret) and
\* what it leaves in the caller's DataFrame (df)
identify_suspicious_transfers(df, table) ==
    LET suspicious_tokens ==
            load_suspicious_tokens_by_blockchain(table, df[1].blockchain)
    IN  IF df = << >> THEN [ret |-> EmptyDF, df |-> df]
        ELSE IF suspicious_tokens = << >> THEN [ret |-> EmptyDF, df |-> df]
        ELSE [ret |-> MergeInner(LowerAddresses(df),
                                 LowerAddresses(suspicious_tokens)),
              df  |-> LowerAddresses(df)]

\* identify_safe_transfers(transfers_df)
identify_safe_transfers(df, table) ==
    LET safe_tokens == load_safe_tokens_by_blockchain(table, df[1].blockchain)
    IN  IF df = << >> THEN [ret |-> EmptyDF, df |-> df]
        ELSE IF safe_tokens = << >> THEN [ret |-> EmptyDF, df |-> df]
        ELSE [ret |-> MergeInner(LowerAddresses(df),
                                 LowerAddresses(safe_tokens)),
              df  |-> LowerAddresses(df)]

---------------------------------------------------------------------------
(* Aggregator *)

DateOf(block_timestamp) == block_timestamp \div HoursPerDay

\* transfers_df['date'] = pd.to_datetime(df['block_timestamp']).dt.date
WithDate(df) ==
    [i \in 1..Len(df) |-> df[i] @@ ("date" :> DateOf(df[i].block_timestamp))]

\* df.groupby('date').size().reset_index(name=col): one row per date of df,
\* the dates ascending
GroupSize(df, col) ==
    LET dates == SortedAsc(ColumnValues(df, "date"))
    IN  [k \in 1..Len(dates) |->
            ("date" :> dates[k]) @@
            (col :> Len(SelectSeq(df, LAMBDA r : r.date = dates[k])))]

\* df.groupby('date')['contract_address'].nunique().reset_index(name=col)
GroupNUnique(df, col) ==
    LET dates == SortedAsc(ColumnValues(df, "date"))
    IN  [k \in 1..Len(dates) |->
            ("date" :> dates[k]) @@
            (col :> NUnique(SelectSeq(df, LAMBDA r : r.date = dates[k]),
                            "contract_address"))]

\* the missing value of a left merge; the counts of a timeline are positive
NaN == -1

\* A mutant of the timeline merge: how='inner', a date without a row on the
\* right is dropped.
MergeOnDateInner(left, right, col) ==
    LET hit(d) == SelectSeq(right, LAMBDA r : r.date = d)
    IN  [k \in 1..Len(SelectSeq(left, LAMBDA l : hit(l.date) # << >>)) |->
            LET l == SelectSeq(left, LAMBDA x : hit(x.date) # << >>)[k]
            IN  l @@ (col :> hit(l.date)[1][col])]

\* pd.merge(left, right, on='date', how='left'): every left row, with the
\* right row's column where the right has that date and NaN where it has not
\* (the right has at most one row per date)
MergeOnDate(left, right, col) ==
    LET hit(d) == SelectSeq(right, LAMBDA r : r.date = d)
    IN  [k \in 1..Len(left) |->
            left[k] @@
            (col :> IF hit(left[k].date) = << >> THEN NaN
                    ELSE hit(left[k].date)[1][col])]

\* .fillna(0)
FillNa(df, col) ==
    [k \in 1..Len(df) |->
        IF df[k][col] = NaN THEN [df[k] EXCEPT ![col] = 0] ELSE df[k]]

\* .set_index('date').sort_index(): the rows by ascending date (the dates of
\* a timeline are distinct)
SortIndex(df) ==
    LET dates == SortedAsc(ColumnValues(df, "date"))
    IN  [k \in 1..Len(dates) |->
            SelectSeq(df, LAMBDA r : r.date = dates[k])[1]]

\* lines 588-595 and 598-604: a timeline of the column all_col of all_part
\* and the column susp_col of susp_part
Timeline(all_part, susp_part, susp_col) ==
    SortIndex(FillNa(MergeOnDate(all_part, susp_part, susp_col), susp_col))

\* the number of rows of df whose contract_address is a
CountOf(df, a) == Len(SelectSeq(df, LAMBDA r : r.contract_address = a))

RECURSIVE CountOrders(_, _, _)
\* the ways to list up to n of the contract addresses K by descending
\* transfer count
CountOrders(df, K, n) ==
    IF K = {} \/ n = 0 THEN {<< >>}
    ELSE LET top == {a \in K : \A b \in K : CountOf(df, a) >= CountOf(df, b)}
         IN  UNION {{<<a>> \o o : o \in CountOrders(df, K \ {a}, n - 1)}
                        : a \in top}

\* A mutant of value_counts().head(5): head() is left out.
TopTokenOrdersUncut(df) ==
    CountOrders(df, ColumnValues(df, "contract_address"),
                Cardinality(ColumnValues(df, "contract_address")))

\* df['contract_address'].value_counts().head(5): the orders of the keys the
\* call can give.  value_counts sorts the counts with Series.sort_values and
\* its default kind ('quicksort'), which is not a stable sort: the order of
\* contract addresses with equal counts is not fixed by the library.
TopTokenOrders(df) == CountOrders(df, ColumnValues(df, "contract_address"), TopN)

\* .to_dict(): the keys in order, each with its count
TopTokensDict(df, order) ==
    [k \in 1..Len(order) |->
        [contract_address |-> order[k], count |-> CountOf(df, order[k])]]

RECURSIVE SortDescending(_)
\* df.sort_values('block_timestamp', ascending=False): rows of equal
\* block_timestamp stay in their order
SortDescending(df) ==
    IF df = << >> THEN << >>
    ELSE LET first == CHOOSE i \in 1..Len(df) :
                        /\ \A j \in 1..Len(df) :
                              df[i].block_timestamp >= df[j].block_timestamp
                        /\ \A j \in 1..(i - 1) :
                              df[j].block_timestamp # df[i].block_timestamp
             rest == [k \in 1..(Len(df) - 1) |->
                        IF k < first THEN df[k] ELSE df[k + 1]]
         IN  <<df[first]>> \o SortDescending(rest)

\* A mutant of the projection: the safe set is looked up for a suspicious
\* transfer too (the `and not is_suspicious` of line 644 is left out).
ProjectTransferSafeAlways(row, suspicious_transfers, safe_transfers) ==
    LET same(r) == /\ r.tx_hash = row.tx_hash
                   /\ r.contract_address = row.contract_address
        suspicious_match == SelectSeq(suspicious_transfers, same)
        is_suspicious == suspicious_match # << >>
        safe_match == SelectSeq(safe_transfers, same)
        is_safe == safe_match # << >>
        tag == IF is_safe THEN safe_match[1].tag
               ELSE IF is_suspicious THEN suspicious_match[1].tag
               ELSE ""
        tag_1 == IF is_safe THEN safe_match[1].tag_1
                 ELSE IF is_suspicious THEN suspicious_match[1].tag_1
                 ELSE ""
    IN  [tx_hash |-> row.tx_hash,
         contract_address |-> row.contract_address,
         from_address |-> row.from_address,
         to_address |-> row.to_address,
         symbol |-> row.symbol,
         block_timestamp |-> row.block_timestamp,
         time |-> row.block_timestamp,
         suspicious |-> is_suspicious,
         safe |-> is_safe,
         tag |-> IF tag = "" THEN "Caution" ELSE tag,
         tag_1 |-> IF tag_1 = "" THEN "No Detail" ELSE tag_1]

\* A mutant of the projection: the tag of a safe match is not taken (lines
\* 651-654 are left out), the transfer shows the defaults.
ProjectTransferSafeUntagged(row, suspicious_transfers, safe_transfers) ==
    LET same(r) == /\ r.tx_hash = row.tx_hash
                   /\ r.contract_address = row.contract_address
        suspicious_match == SelectSeq(suspicious_transfers, same)
        is_suspicious == suspicious_match # << >>
        safe_match == IF is_suspicious THEN << >>
                      ELSE SelectSeq(safe_transfers, same)
        is_safe == safe_match # << >>
        tag == IF is_suspicious THEN suspicious_match[1].tag ELSE ""
        tag_1 == IF is_suspicious THEN suspicious_match[1].tag_1 ELSE ""
    IN  [tx_hash |-> row.tx_hash,
         contract_address |-> row.contract_address,
         from_address |-> row.from_address,
         to_address |-> row.to_address,
         symbol |-> row.symbol,
         block_timestamp |-> row.block_timestamp,
         time |-> row.block_timestamp,
         suspicious |-> is_suspicious,
         safe |-> is_safe,
         tag |-> IF tag = "" THEN "Caution" ELSE tag,
         tag_1 |-> IF tag_1 = "" THEN "No Detail" ELSE tag_1]

\* lines 624-669: the projected record of one transfer row
ProjectTransfer(row, suspicious_transfers, safe_transfers) ==
    LET same(r) == /\ r.tx_hash = row.tx_hash
                   /\ r.contract_address = row.contract_address
        suspicious_match == SelectSeq(suspicious_transfers, same)
        is_suspicious == suspicious_match # << >>
        safe_match == IF is_suspicious THEN << >>
                      ELSE SelectSeq(safe_transfers, same)
        is_safe == safe_match # << >>
        \* tag = None and tag_1 = None are the empty string here: both are
        \* falsy in `tag if tag else "Caution"`
        tag == IF is_suspicious THEN suspicious_match[1].tag
               ELSE IF is_safe THEN safe_match[1].tag
               ELSE ""
        tag_1 == IF is_suspicious THEN suspicious_match[1].tag_1
                 ELSE IF is_safe THEN safe_match[1].tag_1
                 ELSE ""
    IN  [tx_hash |-> row.tx_hash,
         contract_address |-> row.contract_address,
         from_address |-> row.from_address,
         to_address |-> row.to_address,
         symbol |-> row.symbol,
         block_timestamp |-> row.block_timestamp,
         time |-> row.block_timestamp,
         suspicious |-> is_suspicious,
         safe |-> is_safe,
         tag |-> IF tag = "" THEN "Caution" ELSE tag,
         tag_1 |-> IF tag_1 = "" THEN "No Detail" ELSE tag_1]

\* (count / total * 100).round(1), in tenths of a percent; a tie goes to the
\* even tenth
RoundedPercent(count, total) ==
    LET q == (count * 1000) \div total
        r == (count * 1000) % total
    IN  IF 2 * r < total THEN q
        ELSE IF 2 * r > total THEN q + 1
        ELSE IF q % 2 = 0 THEN q ELSE q + 1

\* the tags of TagOrder (the order groupby gives them) that occur in df
TagsOf(df) ==
    SelectSeq(TagOrder, LAMBDA t : t \in ColumnValues(df, "tag_1"))

\* lines 679-687: per tag_1 the number of distinct contracts and its percent
\* of the distinct suspicious contracts (percent: tenths of a percent)
SuspiciousTags(suspicious_transfers) ==
    LET tags == TagsOf(suspicious_transfers)
        total_suspicious_tokens == NUnique(suspicious_transfers, "contract_address")
        count(t) == NUnique(SelectSeq(suspicious_transfers,
                                       LAMBDA r : r.tag_1 = t), "contract_address")
    IN  [k \in 1..Len(tags) |->
            [tag |-> tags[k], count |-> count(tags[k]),
             percent |-> RoundedPercent(count(tags[k]), total_suspicious_tokens)]]

\* lines 700-704: percent is the unrounded quotient count * 100 / safe_tokens,
\* kept as numerator and denominator
SafeTags(safe_transfers) ==
    LET tags == TagsOf(safe_transfers)
        safe_tokens == NUnique(safe_transfers, "contract_address")
        count(t) == NUnique(SelectSeq(safe_transfers,
                                       LAMBDA r : r.tag_1 = t), "contract_address")
    IN  [k \in 1..Len(tags) |->
            [tag |-> tags[k], count |-> count(tags[k]),
             percent |-> <<count(tags[k]) * 100, safe_tokens>>]]

\* A mutant of line 583: the safe directory is consulted for the transfers
\* the suspicious call did not return only.
SafeInputUnflagged(s) ==
    SelectSeq(s.df, LAMBDA t :
        \A n \in 1..Len(s.ret) : s.ret[n].tx_hash # t.tx_hash)

\* line 583: identify_safe_transfers is called on the caller's DataFrame, as
\* the suspicious call (s) left it
SafeInput(s) == s.df

\* analyze_transfers_data(transfers_df) after the empty check, with `order`
\* the key order value_counts gave: what it returns (ret) and what it leaves
\* in the caller's DataFrame (df)
AnalyzeNonEmpty(df0, suspicious_table, safe_table, order) ==
    LET s == identify_suspicious_transfers(df0, suspicious_table)
        f == identify_safe_transfers(SafeInput(s), safe_table)
        df == WithDate(f.df)
        suspicious_transfers == IF s.ret = << >> THEN s.ret ELSE WithDate(s.ret)
        safe_transfers == f.ret
        all_counts == GroupSize(df, "All Transfers")
        suspicious_counts == GroupSize(suspicious_transfers, "Suspicious Transfers")
        tokens_all == GroupNUnique(df, "All Tokens")
        tokens_suspicious == GroupNUnique(suspicious_transfers, "Suspicious Tokens")
        recent_transfers == SortDescending(df)
    IN  [ret |->
          [summary |->
             [total_transfers |-> Len(df),
              unique_tokens |-> NUnique(df, "contract_address"),
              suspicious_count |-> Len(suspicious_transfers),
              suspicious_tokens |-> NUnique(suspicious_transfers, "contract_address"),
              suspicious_senders |->
                  NUnique(suspicious_transfers, "from_address"),
              safe_count |-> Len(safe_transfers),
              safe_tokens |-> NUnique(safe_transfers, "contract_address"),
              safe_senders |->
                  NUnique(safe_transfers, "from_address")],
           top_tokens |-> TopTokensDict(df, order),
           activity_timeline |->
               Timeline(all_counts, suspicious_counts, "Suspicious Transfers"),
           tokens_timeline |->
               Timeline(tokens_all, tokens_suspicious, "Suspicious Tokens"),
           recent_transfers |->
               [k \in 1..Len(recent_transfers) |->
                   ProjectTransfer(recent_transfers[k],
                                   suspicious_transfers, safe_transfers)],
           suspicious_transfers |-> suspicious_transfers,
           suspicious_tags |-> SuspiciousTags(suspicious_transfers),
           safe_transfers |-> safe_transfers,
           safe_tags |-> SafeTags(safe_transfers),
           raw_data |-> df],
         df |-> df]

\* A mutant of analyze_transfers_data: the empty check of line 574 is left out.
analyze_without_empty_check(df0, suspicious_table, safe_table, order) ==
    AnalyzeNonEmpty(df0, suspicious_table, safe_table, order)

\* A mutant of analyze_transfers_data: the guard of line 589 is left out, the
\* groupby on an empty suspicious set raises and the handler of line 737
\* returns None.
analyze_without_groupby_guard(df0, suspicious_table, safe_table, order) ==
    IF df0 = << >> THEN [ret |-> None, df |-> df0]
    ELSE IF identify_suspicious_transfers(df0, suspicious_table).ret = << >>
    THEN [ret |-> None,
          df |-> WithDate(identify_safe_transfers(df0, safe_table).df)]
    ELSE AnalyzeNonEmpty(df0, suspicious_table, safe_table, order)

\* analyze_transfers_data(transfers_df), with `order` the key order
\* value_counts gave
analyze_transfers_data(df0, suspicious_table, safe_table, order) ==
    IF df0 = << >> THEN [ret |-> None, df |-> df0]
    ELSE AnalyzeNonEmpty(df0, suspicious_table, safe_table, order)

\* the DataFrame value_counts is called on: the caller's, after the two
\* identify calls
CountedFrame(df0, suspicious_table, safe_table) ==
    identify_safe_transfers(
        identify_suspicious_transfers(df0, suspicious_table).df, safe_table).df

---------------------------------------------------------------------------
(* Inputs *)

TxHashes == <<"0xt1", "0xt2", "0xt3", "0xt4", "0xt5", "0xt6", "0xt7", "0xt8">>

\* a record of the Transfer Source: leg i of the list
TransferRow(i, address, stamp) ==
    [tx_hash |-> TxHashes[i], contract_address |-> address, symbol |-> "TKN",
     from_address |-> "0xsender", to_address |-> "0xholder",
     block_timestamp |-> stamp, blockchain |-> "ethereum"]

SuspiciousRow(address, detail) ==
    [contract_address |-> address, blockchain |-> "ethereum",
     tag |-> "High Risk", tag_1 |-> detail,
     created_block_timestamp |-> "2023-01-01", name |-> "Token"]

SafeRow(address) ==
    [contract_address |-> address, blockchain |-> "ethereum",
     tag |-> "Safe", tag_1 |-> "No Detail"]

\* the transfer lists of at most maxLen legs, most recent first
TransferLists(addresses, stamps, maxLen) ==
    UNION {{[i \in 1..n |-> TransferRow(i, a[i], t[i])] :
                a \in [1..n -> addresses],
                t \in {u \in [1..n -> stamps] :
                          \A i \in 1..(n - 1) : u[i] >= u[i + 1]}}
           : n \in 0..maxLen}

SuspiciousTables(n) ==
    {[i \in 1..n |-> SuspiciousRow(a[i], d[i])] :
        a \in [1..n -> Addresses], d \in [1..n -> FraudTypes]}

SafeTables(n) == {[i \in 1..n |-> SafeRow(a[i])] : a \in [1..n -> Addresses]}

\* the store holds at most MaxStoreRows rows, over its two tables
InitStore ==
    \E n \in 0..MaxStoreRows : \E m \in 0..(MaxStoreRows - n) :
        /\ store_suspicious \in SuspiciousTables(n)
        /\ store_safe \in SafeTables(m)

InitCall ==
    /\ arg_df = transfers_df
    /\ pc = "call"
    /\ op = "none"
    /\ ret = None
    /\ raised = FALSE
    /\ supabase = Client({})
    /\ arg_blockchain = "ethereum"
    /\ collected = << >>
    /\ current_page = 0
    /\ InitPage
    /\ alchemy = None

\* the pipeline on transfers of three timestamps over two days
Init ==
    /\ InitStore
    /\ transfers_df \in TransferLists(PipelineAddresses, Stamps, MaxTransfers)
    /\ InitCall

\* the classifier alone: the transfers differ in their contract addresses
InitClassify ==
    /\ InitStore
    /\ transfers_df \in TransferLists(Addresses, {30}, MaxTransfers)
    /\ InitCall

\* the table as a store gives it whose schema lacks the columns cols
WithoutColumns(table, cols) ==
    [i \in 1..Len(table) |-> Project(table[i], DOMAIN table[i] \ cols)]

\* the table of a store that still has the column of the old spelling
WithLegacyColumn(table) ==
    [i \in 1..Len(table) |->
        table[i] @@ ("created_blocktime_stamp" :> "2022-12-31")]

\* the columns of the suspicious directory the loader can do without
SuspiciousOptional == {"tag_1", "tag", "created_block_timestamp", "name"}
SafeOptional == {"tag_1"}

\* suspicious tables of n rows under every schema: any of the optional
\* columns missing, the old column there or not
SuspiciousSchemaTables(n) ==
    LET full == {[i \in 1..n |-> SuspiciousRow(a[i], "Phishing")] :
                    a \in [1..n -> PipelineAddresses]}
        cut == {WithoutColumns(t, cols) :
                    t \in full, cols \in SUBSET SuspiciousOptional}
    IN  cut \cup {WithLegacyColumn(t) : t \in cut}

SafeSchemaTables(n) ==
    LET full == {[i \in 1..n |-> SafeRow(a[i])] :
                    a \in [1..n -> PipelineAddresses]}
    IN  {WithoutColumns(t, cols) : t \in full, cols \in SUBSET SafeOptional}

\* the classifier on directories whose data lacks optional columns
InitSentinel ==
    /\ \E n \in 0..MaxSentinelRows : \E m \in 0..(MaxSentinelRows - n) :
          /\ store_suspicious \in SuspiciousSchemaTables(n)
          /\ store_safe \in SafeSchemaTables(m)
    /\ transfers_df \in TransferLists(Addresses, {30}, MaxSentinelTransfers)
    /\ InitCall

\* the chains of the transfers and directories of a mixed call
MixedChains == {"ethereum", "polygon"}
MixedAddresses == {"0xabc", "0xdef"}

\* transfer lists whose legs are of any of the chains
MixedTransferLists(maxLen) ==
    UNION {{[i \in 1..n |->
                [TransferRow(i, a[i], 30) EXCEPT !.blockchain = c[i]]] :
                a \in [1..n -> MixedAddresses], c \in [1..n -> MixedChains]}
           : n \in 0..maxLen}

MixedSuspiciousTables(n) ==
    {[i \in 1..n |->
        [SuspiciousRow(a[i], "Phishing") EXCEPT !.blockchain = c[i]]] :
        a \in [1..n -> MixedAddresses], c \in [1..n -> MixedChains]}

MixedSafeTables(n) ==
    {[i \in 1..n |-> [SafeRow(a[i]) EXCEPT !.blockchain = c[i]]] :
        a \in [1..n -> MixedAddresses], c \in [1..n -> MixedChains]}

\* the classifier on transfer lists and directories of two chains
InitMixed ==
    /\ \E n \in 0..MaxStoreRows : \E m \in 0..(MaxStoreRows - n) :
          /\ store_suspicious \in MixedSuspiciousTables(n)
          /\ store_safe \in MixedSafeTables(m)
    /\ transfers_df \in MixedTransferLists(MaxTransfers)
    /\ InitCall

RECURSIVE GrowthStrings(_)
\* the sequences of n numbers in which every number is at most one more than
\* the largest before it: every pattern of equal and different contracts in
\* a list of n transfers, once
GrowthStrings(n) ==
    IF n = 0 THEN {<< >>}
    ELSE UNION {{Append(g, k) :
                    k \in 1..(1 + Cardinality({g[i] : i \in 1..(n - 1)}))}
                : g \in GrowthStrings(n - 1)}

\* the ranking of the contracts: longer lists over more contracts, which the
\* aggregation tells apart by equality alone
InitTop ==
    /\ store_suspicious \in {<< >>, <<SuspiciousRow(TopAddresses[1], "Phishing")>>}
    /\ store_safe = << >>
    /\ \E n \in 0..MaxTopLen : \E g \in GrowthStrings(n) :
          transfers_df = [i \in 1..n |-> TransferRow(i, TopAddresses[g[i]], 30)]
    /\ InitCall

---------------------------------------------------------------------------
(* Operations *)

CallIdentifySuspicious ==
    /\ pc = "call"
    /\ LET r == identify_suspicious_transfers(transfers_df, store_suspicious)
       IN  /\ ret' = r.ret
           /\ transfers_df' = r.df
    /\ op' = "identify_suspicious_transfers"
    /\ pc' = "done"
    /\ raised' = FALSE
    /\ UNCHANGED <<store_suspicious, store_safe, arg_df>>
    /\ UNCHANGED collab_vars
    /\ UNCHANGED ui_vars

CallIdentifySafe ==
    /\ pc = "call"
    /\ LET r == identify_safe_transfers(transfers_df, store_safe)
       IN  /\ ret' = r.ret
           /\ transfers_df' = r.df
    /\ op' = "identify_safe_transfers"
    /\ pc' = "done"
    /\ raised' = FALSE
    /\ UNCHANGED <<store_suspicious, store_safe, arg_df>>
    /\ UNCHANGED collab_vars
    /\ UNCHANGED ui_vars

\* analyze_transfers_data(transfers_df)
Analyze ==
    /\ pc = "call"
    /\ \E order \in TopTokenOrders(
                CountedFrame(transfers_df, store_suspicious, store_safe)) :
           LET r == analyze_transfers_data(transfers_df, store_suspicious,
                                           store_safe, order)
           IN  /\ ret' = r.ret
               /\ transfers_df' = r.df
    /\ op' = "analyze_transfers_data"
    /\ pc' = "done"
    /\ raised' = FALSE
    /\ UNCHANGED <<store_suspicious, store_safe, arg_df>>
    /\ UNCHANGED collab_vars
    /\ UNCHANGED ui_vars

Next == Analyze

NextClassify == CallIdentifySuspicious \/ CallIdentifySafe

Spec == Init /\ [][Next]_vars

SpecClassify == InitClassify /\ [][NextClassify]_vars

SpecTop == InitTop /\ [][Next]_vars

SpecSentinel == InitSentinel /\ [][NextClassify]_vars

SpecMixed == InitMixed /\ [][NextClassify]_vars

\* the pipeline on transfers whose contract addresses differ in letter case
SpecCase == InitClassify /\ [][Next]_vars

---------------------------------------------------------------------------
(* Directory Repository, page by page *)

Loaders == {"load_suspicious_tokens_by_blockchain",
            "load_safe_tokens_by_blockchain"}

\* the table a loader reads
TableOf(name) ==
    IF name = "load_suspicious_tokens_by_blockchain"
    THEN store_suspicious ELSE store_safe

\* .range(from, to): the rows from..to of the answer, counted from 0, as far
\* as there are any
Range(rows, from, to) ==
    LET last == IF to + 1 < Len(rows) THEN to + 1 ELSE Len(rows)
    IN  [k \in 1..(last - from) |-> rows[from + k]]

\* response.data of the request for a page
PageData(table, blockchain, page) ==
    Range(FetchRows(table, blockchain),
          page * page_size, (page + 1) * page_size - 1)

\* A mutant of the loop's exit: a full page ends the loop too.
LastPageOrFull(data) == Len(data) <= page_size

\* line 104: the page is shorter than a full one
LastPage(data) == Len(data) < page_size

\* A mutant of the handlers: the exception is not caught.
Propagate == [ret |-> None, raised |-> TRUE]

\* except Exception: the function returns pd.DataFrame()
OnException == [ret |-> EmptyDF, raised |-> FALSE]

\* the entry of a loader: without a client it returns at once (lines 87-89)
Load(name) ==
    /\ pc = "call"
    /\ alchemy = None
    /\ op' = name
    /\ IF supabase = None
       THEN /\ ret' = EmptyDF
            /\ pc' = "done"
       ELSE /\ ret' = ret
            /\ pc' = "paging"
    /\ collected' = << >>
    /\ current_page' = 0
    /\ raised' = FALSE
    /\ UNCHANGED <<store_suspicious, store_safe, transfers_df, arg_df,
                   supabase, arg_blockchain, alchemy>>
    /\ UNCHANGED ui_vars

\* one turn of the while loop of lines 95-106: the request of a page
RequestPage ==
    /\ pc = "paging"
    /\ IF current_page \in supabase.raises_on
       THEN /\ ret' = OnException.ret
            /\ raised' = OnException.raised
            /\ pc' = "done"
            /\ UNCHANGED <<collected, current_page>>
       ELSE LET data == PageData(TableOf(op), arg_blockchain, current_page)
            IN  /\ IF data = << >>
                   THEN /\ pc' = "loaded"
                        /\ UNCHANGED <<collected, current_page>>
                   ELSE /\ collected' = collected \o data
                        /\ IF LastPage(data)
                           THEN pc' = "loaded" /\ current_page' = current_page
                           ELSE pc' = "paging"
                                /\ current_page' = current_page + 1
                /\ UNCHANGED <<ret, raised>>
    /\ UNCHANGED <<store_suspicious, store_safe, transfers_df, arg_df, op,
                   supabase, arg_blockchain, alchemy>>
    /\ UNCHANGED ui_vars

\* after the loop: the DataFrame of the rows collected is returned
BuildFrame ==
    /\ pc = "loaded"
    /\ ret' = IF op = "load_suspicious_tokens_by_blockchain"
              THEN SuspiciousFrame(collected) ELSE SafeFrame(collected)
    /\ pc' = "done"
    /\ UNCHANGED <<store_suspicious, store_safe, transfers_df, arg_df, op,
                   raised, supabase, arg_blockchain, collected, current_page,
                   alchemy>>
    /\ UNCHANGED ui_vars

NextLoad == (\E name \in Loaders : Load(name)) \/ RequestPage \/ BuildFrame

---------------------------------------------------------------------------
(* Transfer Source: get_token_transfers *)

\* the chain names a fetch is asked with: the seven of the select box (lines
\* 429-437) and one, avalanche, that takes the else branch of line 479
Chains == {"ethereum", "bsc", "polygon", "arbitrum", "optimism", "base",
           "avalanche", "blast"}

\* the names lines 465-478 have an endpoint for
KnownChains == {"ethereum", "polygon", "arbitrum", "optimism", "blast", "base",
                "bsc", "binance", "binance smart chain", "binance-smart-chain"}

\* lines 464-482: the chain the fetch works with
ResolveChain(blockchain) ==
    IF Lower(blockchain) \in KnownChains THEN Lower(blockchain) ELSE "ethereum"

\* datetime.now() of the request, in hours
Now == 1000
SevenDays == 7 * HoursPerDay

\* the block numbers of the answers and the clock of the chain: block 1 is
\* older than seven days, block 2 is seven days old to the hour
Blocks == 1..3
BlockTime(blockNum) == Now - SevenDays + (blockNum - 2)

\* data["result"]["transfers"] of an answer with status 200, nothing otherwise
TransfersOf(response) ==
    IF response.status_code = 200 THEN response.transfers ELSE << >>

RECURSIVE SortByBlockNum(_)
\* all_transfers.sort(key=blockNum, reverse=True): the sort is stable
SortByBlockNum(txs) ==
    IF txs = << >> THEN << >>
    ELSE LET first == CHOOSE i \in 1..Len(txs) :
                        /\ \A j \in 1..Len(txs) : txs[i].blockNum >= txs[j].blockNum
                        /\ \A j \in 1..(i - 1) : txs[j].blockNum # txs[i].blockNum
             rest == [k \in 1..(Len(txs) - 1) |->
                        IF k < first THEN txs[k] ELSE txs[k + 1]]
         IN  <<txs[first]>> \o SortByBlockNum(rest)

\* lines 545-555: the record made of a transfer of the answer
ProcessedTransfer(tx) ==
    [block_number |-> tx.blockNum,
     timestamp |-> tx.metadata.blockTimestamp,
     tx_hash |-> tx.hash,
     contract_address |-> tx.rawContract.address,
     symbol |-> tx.asset,
     from_address |-> tx.from,
     to_address |-> tx.to,
     amount |-> tx.value,
     block_timestamp |-> tx.metadata.blockTimestamp]

RECURSIVE ProcessUncapped(_, _, _)
\* A mutant of the loop of lines 538-557: the break of line 557 is left out.
ProcessUncapped(txs, seven_days_ago, processed_transfers) ==
    IF txs = << >> THEN processed_transfers
    ELSE IF "blockTimestamp" \notin DOMAIN Head(txs).metadata
         THEN ProcessUncapped(Tail(txs), seven_days_ago, processed_transfers)
    ELSE IF Head(txs).metadata.blockTimestamp >= seven_days_ago
         THEN ProcessUncapped(Tail(txs), seven_days_ago,
                      Append(processed_transfers, ProcessedTransfer(Head(txs))))
    ELSE ProcessUncapped(Tail(txs), seven_days_ago, processed_transfers)

RECURSIVE Process(_, _, _)
\* the loop of lines 538-557 over the sorted transfers
Process(txs, seven_days_ago, processed_transfers) ==
    IF txs = << >> THEN processed_transfers
    ELSE IF "blockTimestamp" \notin DOMAIN Head(txs).metadata
         THEN Process(Tail(txs), seven_days_ago, processed_transfers)
    ELSE IF Head(txs).metadata.blockTimestamp >= seven_days_ago
         THEN LET grown == Append(processed_transfers,
                                  ProcessedTransfer(Head(txs)))
              IN  IF Len(grown) >= FetchCap THEN grown
                  ELSE Process(Tail(txs), seven_days_ago, grown)
    ELSE Process(Tail(txs), seven_days_ago, processed_transfers)

\* get_token_transfers(address_searched, blockchain) with the answers of the
\* Transfer Source: what it returns (ret) and whether an exception leaves it
get_token_transfers(source, blockchain) ==
    LET chain == ResolveChain(blockchain)
        all_transfers == SortByBlockNum(TransfersOf(source.outgoing)
                                            \o TransfersOf(source.incoming))
        processed_transfers == Process(all_transfers, Now - SevenDays, << >>)
        with_chain == [k \in 1..Len(processed_transfers) |->
                          processed_transfers[k] @@ ("blockchain" :> chain)]
    IN  IF ~ source.connected
        THEN [ret |-> EmptyDF, raised |-> FALSE]          \* lines 484-486
        ELSE IF source.raises THEN OnException            \* requests.post
        ELSE IF with_chain = << >> THEN OnException       \* KeyError, line 565
        ELSE [ret |-> with_chain, raised |-> FALSE]

Fetch ==
    /\ pc = "call"
    /\ alchemy # None
    /\ LET r == get_token_transfers(alchemy, arg_blockchain)
       IN  /\ ret' = r.ret
           /\ raised' = r.raised
    /\ op' = "get_token_transfers"
    /\ pc' = "done"
    /\ UNCHANGED <<store_suspicious, store_safe, transfers_df, arg_df,
                   supabase, arg_blockchain, collected, current_page, alchemy>>
    /\ UNCHANGED ui_vars

---------------------------------------------------------------------------
(* Inputs of the collaborators *)

\* a row of a table of the store: row i of the table, of a chain
StoreRow(name, i, chain) ==
    IF name = "load_suspicious_tokens_by_blockchain"
    THEN [SuspiciousRow(TopAddresses[i], "Phishing") EXCEPT !.blockchain = chain]
    ELSE [SafeRow(TopAddresses[i]) EXCEPT !.blockchain = chain]

\* the tables of n rows: all of one chain, or one row of them of another
StoreTables(name, n) ==
    {[i \in 1..n |->
        StoreRow(name, i, IF i = other THEN "polygon" ELSE "ethereum")] :
        other \in 0..n}

\* a store of at most MaxTableRows rows, reached through a client that
\* answers, a client whose request for one page raises, or no client
InitLoad ==
    /\ \E n \in 0..MaxTableRows : \E m \in 0..(MaxTableRows - n) :
          /\ store_suspicious
                \in StoreTables("load_suspicious_tokens_by_blockchain", n)
          /\ store_safe \in StoreTables("load_safe_tokens_by_blockchain", m)
    /\ supabase \in {None, Client({})}
                        \cup {Client({k}) : k \in 0..(MaxTableRows \div page_size)}
    /\ arg_blockchain \in {"ethereum", "Ethereum"}
    /\ transfers_df = << >>
    /\ arg_df = << >>
    /\ pc = "call"
    /\ op = "none"
    /\ ret = EmptyDF
    /\ raised = FALSE
    /\ collected = << >>
    /\ current_page = 0
    /\ InitPage
    /\ alchemy = None

\* a transfer of an answer: leg "out" is from the address searched, leg "in"
\* is to it
AssetTransfer(i, blockNum, stamped, leg) ==
    [hash |-> TxHashes[i],
     blockNum |-> blockNum,
     metadata |-> IF stamped THEN [blockTimestamp |-> BlockTime(blockNum)]
                  ELSE << >>,
     rawContract |-> [address |-> "0xabc"],
     asset |-> "TKN",
     from |-> IF leg = "out" THEN "0xholder" ELSE "0xsender",
     to |-> IF leg = "out" THEN "0xsender" ELSE "0xholder",
     value |-> 1]

\* the answers to one request: status 200 and at most FetchCap (maxCount)
\* transfers, the highest block first (order: desc), or an error status
Answers(leg, offset) ==
    {[status_code |-> 500, transfers |-> << >>]} \cup
    UNION {{[status_code |-> 200,
             transfers |-> [i \in 1..n |->
                               AssetTransfer(offset + i, b[i], t[i], leg)]] :
                b \in {x \in [1..n -> Blocks] :
                          \A i \in 1..(n - 1) : x[i] >= x[i + 1]},
                t \in [1..n -> BOOLEAN]}
           : n \in 0..FetchCap}

InitFetch ==
    /\ alchemy \in
          {[connected |-> FALSE, raises |-> FALSE,
            outgoing |-> [status_code |-> 500, transfers |-> << >>],
            incoming |-> [status_code |-> 500, transfers |-> << >>]],
           [connected |-> TRUE, raises |-> TRUE,
            outgoing |-> [status_code |-> 500, transfers |-> << >>],
            incoming |-> [status_code |-> 500, transfers |-> << >>]]}
          \cup {[connected |-> TRUE, raises |-> FALSE,
                 outgoing |-> o, incoming |-> i] :
                    o \in Answers("out", 0), i \in Answers("in", FetchCap)}
    /\ arg_blockchain \in Chains
    /\ store_suspicious = << >>
    /\ store_safe = << >>
    /\ transfers_df = << >>
    /\ arg_df = << >>
    /\ pc = "call"
    /\ op = "none"
    /\ ret = EmptyDF
    /\ raised = FALSE
    /\ supabase = Client({})
    /\ collected = << >>
    /\ current_page = 0
    /\ InitPage

\* a transfer from the address searched to itself
SelfTransfer(i, blockNum) ==
    [AssetTransfer(i, blockNum, TRUE, "out") EXCEPT !.to = "0xholder"]

IsSelfTransfer(tx) == tx.from = tx.to

\* the answers to the outgoing request (fromAddress = address): transfers to
\* others and transfers to the address itself, the highest block first
OutgoingWithSelf ==
    UNION {{[status_code |-> 200,
             transfers |-> [i \in 1..n |->
                               IF self[i] THEN SelfTransfer(i, b[i])
                               ELSE AssetTransfer(i, b[i], TRUE, "out")]] :
                b \in {x \in [1..n -> Blocks] :
                          \A i \in 1..(n - 1) : x[i] >= x[i + 1]},
                self \in [1..n -> BOOLEAN]}
           : n \in 0..FetchCap}

\* the answers to the incoming request (toAddress = address) of a source that
\* answered the outgoing request with o: the transfers of o to the address
\* itself are transfers to the address too, then come those from others
IncomingWithSelf(o) ==
    LET own == SelectSeq(o.transfers, IsSelfTransfer)
    IN  {[status_code |-> 200, transfers |-> own \o i.transfers] :
            i \in {a \in Answers("in", FetchCap) :
                      /\ a.status_code = 200
                      /\ Len(own) + Len(a.transfers) <= FetchCap
                      /\ \A j \in 1..Len(own), k \in 1..Len(a.transfers) :
                            own[j].blockNum >= a.transfers[k].blockNum
                      /\ \A k \in 1..Len(a.transfers) :
                            "blockTimestamp" \in DOMAIN a.transfers[k].metadata}}

\* a Transfer Source that reports the transfers from the address to itself
\* in both of its answers
InitFetchSelf ==
    /\ \E o \in OutgoingWithSelf : \E i \in IncomingWithSelf(o) :
          alchemy = [connected |-> TRUE, raises |-> FALSE,
                     outgoing |-> o, incoming |-> i]
    /\ arg_blockchain \in Chains
    /\ store_suspicious = << >>
    /\ store_safe = << >>
    /\ transfers_df = << >>
    /\ arg_df = << >>
    /\ pc = "call"
    /\ op = "none"
    /\ ret = EmptyDF
    /\ raised = FALSE
    /\ supabase = Client({})
    /\ collected = << >>
    /\ current_page = 0
    /\ InitPage

SpecFetchSelf == InitFetchSelf /\ [][Fetch]_vars

InitCollab == InitLoad \/ InitFetch

NextCollab == NextLoad \/ Fetch

SpecCollab == InitCollab /\ [][NextCollab]_vars

\* the paging of one table at a time
InitPaging ==
    /\ InitLoad
    /\ store_suspicious = << >> \/ store_safe = << >>
    /\ arg_blockchain = "Ethereum"

SpecLoad == InitPaging /\ [][NextLoad]_vars

\* a loader that has begun runs on: the next step of the program (every step
\* moves pc or current_page) is taken
SpecLoadFair == SpecLoad /\ WF_<<pc, current_page>>(NextLoad)

---------------------------------------------------------------------------
(* The session: cookies and search history *)

\* get_cookie(name, default) on the session state cookies
get_cookie(cookies, name, default) ==
    IF name \in DOMAIN cookies THEN cookies[name] ELSE default

\* the session state after set_cookie(name, value)
set_cookie(cookies, name, value) ==
    [k \in DOMAIN cookies \cup {name} |->
        IF k = name THEN value ELSE cookies[k]]

\* the session state after delete_cookie(name)
delete_cookie(cookies, name) ==
    [k \in DOMAIN cookies \ {name} |-> cookies[k]]

\* history.pop(i)
Pop(history, i) ==
    [k \in 1..(Len(history) - 1) |->
        IF k < i THEN history[k] ELSE history[k + 1]]

\* A mutant of the limit of lines 308-310: the entries past the limit stay.
Unlimited(history) == history

\* lines 308-310: the history limited to its first HistoryCap entries
Limited(history) ==
    IF Len(history) > HistoryCap THEN SubSeq(history, 1, HistoryCap)
    ELSE history

\* A mutant of lines 302-306: the entry of an earlier search of the pair stays.
WithoutNothing(history, entry_address, blockchain) == history

\* lines 295-303: the history without the first entry of the address (letter
\* case set aside) and blockchain
WithoutExisting(history, entry_address, blockchain) ==
    LET existing_entries ==
            {i \in 1..Len(history) :
                /\ Lower(history[i].address) = Lower(entry_address)
                /\ history[i].blockchain = blockchain}
    IN  IF existing_entries # {}
        THEN Pop(history, CHOOSE i \in existing_entries :
                              \A j \in existing_entries : i <= j)
        ELSE history

\* the session state after add_to_search_history(address, blockchain) at the
\* time now
add_to_search_history(cookies, entry_address, blockchain, now) ==
    LET new_entry == [timestamp |-> now, address |-> entry_address,
                      blockchain |-> blockchain]
        history == get_cookie(cookies, "search_history", << >>)
    IN  set_cookie(cookies, "search_history",
            Limited(<<new_entry>>
                        \o WithoutExisting(history, entry_address, blockchain)))

\* the addresses and the blockchains of the searches
SearchAddresses == {"0xabc", "0xABC", "0xdef", "0x123"}
SearchChains == {"ethereum", "bsc"}

\* datetime.now() of a call: the number of calls made before it
Clock == Len(searches)

\* a call of add_to_search_history
AddToSearchHistory ==
    /\ pc = "call"
    /\ Len(searches) < MaxCalls
    /\ \E a \in SearchAddresses, b \in SearchChains :
          /\ session_state' = add_to_search_history(session_state, a, b, Clock)
          /\ searches' = Append(searches, [address |-> a, blockchain |-> b])
          /\ arg_address' = a
          /\ arg_blockchain' = b
    /\ op' = "add_to_search_history"
    /\ UNCHANGED <<store_suspicious, store_safe, transfers_df, arg_df, pc, ret,
                   raised, supabase, collected, current_page, alchemy, shown>>

\* a new session
InitSession ==
    /\ store_suspicious = << >>
    /\ store_safe = << >>
    /\ transfers_df = << >>
    /\ arg_df = << >>
    /\ InitCall

SpecHistory == InitSession /\ [][AddToSearchHistory]_vars

---------------------------------------------------------------------------
(* The page: one script run per interaction *)

\* get_cookie(name) is truthy: the values the page stores under has_searched
\* (True) and current_results (a non-empty dict) are truthy, so it is when
\* the cookie is stored
Stored(cookies, name) == name \in DOMAIN cookies

\* A mutant of lines 968-969: nothing is deleted.
ResetNothing(cookies) == cookies

\* A mutant of lines 968-969: only has_searched is deleted.
ResetSearchedOnly(cookies) == delete_cookie(cookies, "has_searched")

\* lines 968-969: the search button resets the results first
ResetResults(cookies) ==
    delete_cookie(delete_cookie(cookies, "has_searched"), "current_results")

\* recent_transfers of get_mock_data(): entry i of range(20).  Its tag_1, a
\* random pick of a fraud type for the High Risk entries, and the other keys
\* of the mock data are left out: the table below reads none of them.
MockTransfer(i) ==
    LET tag == IF i % 3 = 0 THEN "High Risk"
               ELSE IF i % 3 = 1 THEN "Safe" ELSE "Caution"
    IN  [tx_hash |-> <<"0x", i, "234...abcd">>,
         contract_address |-> <<"0xc", i, "23...4567">>,
         symbol |-> "ETH",
         suspicious |-> tag = "High Risk",
         safe |-> tag = "Safe",
         tag |-> tag]

get_mock_data ==
    [recent_transfers |-> [k \in 1..MockTransfers |-> MockTransfer(k - 1)]]

\* A mutant of line 1215: the division rounds down.
TotalPagesFloor(total_transfers) == total_transfers \div transfers_per_page

\* line 1215
TotalPages(total_transfers) ==
    (total_transfers + transfers_per_page - 1) \div transfers_per_page

\* A mutant of line 1284: red for the tag High Risk alone.
StatusColorHighRisk(row) ==
    IF row.tag = "High Risk" THEN "#b71c1c"
    ELSE IF row.safe THEN "#2e7d32"
    ELSE "#FFD700"

\* lines 1283-1284: the colour of the status badge of a row
StatusColor(row) ==
    LET status == IF "tag" \in DOMAIN row THEN row.tag ELSE "Caution"
        safe == IF "safe" \in DOMAIN row THEN row.safe ELSE FALSE
    IN  IF status # "" /\ status # "Caution" /\ ~ safe THEN "#b71c1c"
        ELSE IF safe THEN "#2e7d32"
        ELSE "#FFD700"

\* lines 1251-1252 and 1274: recent_transfers[start_idx:end_idx] of the page
PageRows(recent_transfers, page) ==
    LET total_transfers == Len(recent_transfers)
        start_idx == (page - 1) * transfers_per_page
        end_idx == IF start_idx + transfers_per_page < total_transfers
                   THEN start_idx + transfers_per_page ELSE total_transfers
    IN  SubSeq(recent_transfers, start_idx + 1, end_idx)

\* lines 1212-1299: the Recent Transfers table of the page selected
Table(data, page) ==
    LET rows == PageRows(data.recent_transfers, page)
    IN  [current_page |-> page,
         total_pages |-> TotalPages(Len(data.recent_transfers)),
         rows |-> [k \in 1..Len(rows) |->
                      [row |-> rows[k], status_color |-> StatusColor(rows[k])]]]

\* the transfers a search of the page finds: n transfers of three contracts
\* in turn, the first one the contract of number first
FoundAddresses == <<"0xabc", "0xdef", "0x123">>
FoundHashes ==
    TxHashes \o <<"0xt9", "0xt10", "0xt11", "0xt12", "0xt13", "0xt14", "0xt15",
                  "0xt16">>
FoundTransfers(n, first) ==
    [i \in 1..n |->
        [TransferRow(1, FoundAddresses[((i + first) % 3) + 1], 30)
            EXCEPT !.tx_hash = FoundHashes[i]]]
FoundLists ==
    {FoundTransfers(n, first) : n \in 0..MaxFound, first \in 0..2}

\* the address input of the page: empty, or an address
PageAddresses == {"", "0xabc"}

\* the Analyze button is pressed: lines 966-969
PressAnalyze ==
    /\ pc = "idle"
    /\ Len(searches) < MaxSearches
    /\ arg_address' \in PageAddresses
    /\ session_state' = ResetResults(session_state)
    /\ pc' = "search"
    /\ op' = "search_button"
    /\ ret' = None
    /\ transfers_df' = << >>
    /\ arg_df' = << >>
    /\ UNCHANGED <<store_suspicious, store_safe, raised, searches, shown>>
    /\ UNCHANGED collab_vars

\* st.stop(): the run ends, nothing below is rendered
Stop ==
    /\ pc' = "idle"
    /\ shown' = None
    /\ ret' = None
    /\ transfers_df' = << >>
    /\ arg_df' = << >>

\* lines 971-1007: the search of the address, the fetch answering with the
\* transfers found, or something in the try block raising
Search ==
    /\ pc = "search"
    /\ IF arg_address # "" /\ arg_blockchain # ""
       THEN LET history == add_to_search_history(session_state, arg_address,
                                                 arg_blockchain, Clock)
                searched == set_cookie(history, "has_searched", TRUE)
            IN  /\ searches' = Append(searches, [address |-> arg_address,
                                                 blockchain |-> arg_blockchain])
                /\ \E found \in FoundLists, raises, fails \in BOOLEAN :
                      IF raises
                      THEN session_state' = searched /\ Stop   \* 1003-1005
                      ELSE IF found = << >>                    \* 985-991
                      THEN /\ session_state'
                                = delete_cookie(searched, "has_searched")
                           /\ Stop
                      ELSE \E order \in TopTokenOrders(
                                  CountedFrame(found, store_suspicious,
                                               store_safe)) :
                             LET r == analyze_transfers_data(found,
                                         store_suspicious, store_safe, order)
                                 data == IF fails THEN None ELSE r.ret
                             IN  IF data = None                \* 995-998
                                 THEN /\ session_state'
                                         = delete_cookie(searched, "has_searched")
                                      /\ Stop
                                 ELSE /\ session_state'       \* 1001
                                         = set_cookie(searched,
                                                      "current_results", data)
                                      /\ ret' = data
                                      /\ transfers_df' = r.df
                                      /\ arg_df' = found
                                      /\ pc' = "display"
                                      /\ UNCHANGED shown
       ELSE /\ pc' = "display"                                 \* 1006-1007
            /\ UNCHANGED <<session_state, searches, ret, transfers_df,
                           arg_df, shown>>
    /\ UNCHANGED <<store_suspicious, store_safe, op, raised, arg_address>>
    /\ UNCHANGED collab_vars

\* the Try Example button is pressed: lines 1010-1016
PressTryExample ==
    /\ pc = "idle"
    /\ session_state' = set_cookie(set_cookie(session_state, "has_searched", TRUE),
                                   "current_results", get_mock_data)
    /\ pc' = "display"
    /\ op' = "try_example_button"
    /\ ret' = None
    /\ transfers_df' = << >>
    /\ arg_df' = << >>
    /\ UNCHANGED <<store_suspicious, store_safe, raised, arg_address, searches,
                   shown>>
    /\ UNCHANGED collab_vars

\* a run with no button pressed: the page selector was changed
Rerun ==
    /\ pc = "idle"
    /\ shown # None
    /\ pc' = "display"
    /\ op' = "rerun"
    /\ ret' = None
    /\ transfers_df' = << >>
    /\ arg_df' = << >>
    /\ UNCHANGED <<store_suspicious, store_safe, raised, session_state,
                   arg_address, searches, shown>>
    /\ UNCHANGED collab_vars

\* lines 1019-1299: the results of the session are rendered, the Recent
\* Transfers table on the page of its selector
Display ==
    /\ pc = "display"
    /\ IF /\ Stored(session_state, "has_searched")
          /\ Stored(session_state, "current_results")
       THEN LET data == get_cookie(session_state, "current_results", None)
            IN  \E page \in 1..TotalPages(Len(data.recent_transfers)) :
                    shown' = Table(data, page)
       ELSE shown' = None
    /\ pc' = "idle"
    /\ UNCHANGED <<store_suspicious, store_safe, transfers_df, arg_df, op, ret,
                   raised, session_state, arg_address, searches>>
    /\ UNCHANGED collab_vars

\* a new session of the page, over a store with a suspicious contract, of
\* the tag High Risk or of the loader's Unknown, and a safe one
InitRun ==
    /\ store_suspicious
          \in {<<[SuspiciousRow("0xabc", "Phishing") EXCEPT !.tag = t]>> :
                  t \in {"High Risk", "Unknown"}}
    /\ store_safe = <<SafeRow("0xdef")>>
    /\ transfers_df = << >>
    /\ arg_df = << >>
    /\ pc = "idle"
    /\ op = "none"
    /\ ret = None
    /\ raised = FALSE
    /\ supabase = Client({})
    /\ arg_blockchain = "ethereum"
    /\ collected = << >>
    /\ current_page = 0
    /\ InitPage
    /\ alchemy = None

NextRun == PressAnalyze \/ Search \/ PressTryExample \/ Rerun \/ Display

SpecRun == InitRun /\ [][NextRun]_vars

---------------------------------------------------------------------------
(* Properties of the classifier, checked under SpecClassify *)

Returned(operation) == pc = "done" /\ op = operation

\* the rows of a store table that are of the chain of the transfers
DirectoryOf(table) ==
    IF arg_df = << >> THEN << >> ELSE FetchRows(table, arg_df[1].blockchain)

\* the contract address is in the directory, letter case ignored
Listed(table, address) ==
    \E k \in 1..Len(DirectoryOf(table)) :
        Lower(DirectoryOf(table)[k].contract_address) = Lower(address)

\* the input transfers whose lowercased contract address is in the directory
ListedTransfers(table) ==
    {i \in 1..Len(arg_df) : Listed(table, arg_df[i].contract_address)}

\* C1: identify_suspicious_transfers returns every input transfer at most
\* once, whatever rows the suspicious directory repeats (rows whose addresses
\* differ only by letter case included): the size of the suspicious set is
\* the number of input transfers whose lowercased contract address is in the
\* directory.
C1_SuspiciousSetSize ==
    Returned("identify_suspicious_transfers") =>
        Len(ret) = Cardinality(ListedTransfers(store_suspicious))

\* C2: identify_safe_transfers returns every input transfer at most once,
\* whatever rows the safe directory repeats: the size of the safe set is the
\* number of input transfers whose lowercased contract address is in the safe
\* directory.
C2_SafeSetSize ==
    Returned("identify_safe_transfers") =>
        Len(ret) = Cardinality(ListedTransfers(store_safe))

\* C3: every transfer of the suspicious output has a contract address that
\* is, letter case ignored, in the suspicious directory, and every transfer of
\* the safe output has one that is in the safe directory.
C3_ClassificationSound ==
    /\ Returned("identify_suspicious_transfers") =>
          \A k \in 1..Len(ret) : Listed(store_suspicious, ret[k].contract_address)
    /\ Returned("identify_safe_transfers") =>
          \A k \in 1..Len(ret) : Listed(store_safe, ret[k].contract_address)

\* C3 witness: a call that returned some of the input transfers and left out
\* another, whose contract is not in the directory.
C3_Witness ==
    /\ Returned("identify_suspicious_transfers")
    /\ ret # << >>
    /\ \E i \in 1..Len(arg_df) :
          ~ Listed(store_suspicious, arg_df[i].contract_address)

\* the entries of the suspicious directory: of the rows with one and the same
\* contract address, the first
Entries(table) ==
    {k \in 1..Len(DirectoryOf(table)) :
        \A j \in 1..(k - 1) :
            DirectoryOf(table)[j].contract_address
                # DirectoryOf(table)[k].contract_address}

\* C4: every transfer whose contract address is, letter case ignored, the
\* contract address of an entry of the suspicious directory is in the
\* suspicious set, with the tag and the tag_1 of that entry.
C4_CaseInsensitiveMatchComplete ==
    Returned("identify_suspicious_transfers") =>
        \A i \in 1..Len(arg_df) : \A k \in Entries(store_suspicious) :
            LET e == DirectoryOf(store_suspicious)[k]
            IN  Lower(e.contract_address) = Lower(arg_df[i].contract_address) =>
                    \E n \in 1..Len(ret) :
                        /\ ret[n].tx_hash = arg_df[i].tx_hash
                        /\ ret[n].contract_address = Lower(e.contract_address)
                        /\ ret[n].tag = e.tag
                        /\ ret[n].tag_1 = e.tag_1

\* C4 witness: the transfers "0xABC" and "0xabc" against the one entry
\* "0xabc"/Phishing: both are returned, with tag_1 "Phishing".
C4_Witness ==
    /\ Returned("identify_suspicious_transfers")
    /\ Len(arg_df) = 2
    /\ arg_df[1].contract_address = "0xABC"
    /\ arg_df[2].contract_address = "0xabc"
    /\ store_suspicious = <<SuspiciousRow("0xabc", "Phishing")>>
    /\ Len(ret) = 2
    /\ \A n \in 1..2 : ret[n].tx_hash = arg_df[n].tx_hash
                       /\ ret[n].tag = "High Risk" /\ ret[n].tag_1 = "Phishing"

\* C16: identify_suspicious_transfers and identify_safe_transfers leave the
\* transfer list of the caller as it was passed in: the same rows, columns
\* and contract_address values.
C16_CallerListUnchanged ==
    (Returned("identify_suspicious_transfers")
        \/ Returned("identify_safe_transfers")) => transfers_df = arg_df

---------------------------------------------------------------------------
(* Properties of the aggregator, checked under Spec *)

Analyzed == Returned("analyze_transfers_data")

\* C5: analyze_transfers_data returns None for the empty transfer list, never
\* a structure of zeroes, and a populated structure for every other list.
C5_EmptyListGivesNone ==
    Analyzed =>
        /\ (arg_df = << >>) <=> (ret = None)
        /\ arg_df # << >> => /\ "summary" \in DOMAIN ret
                             /\ ret.summary.total_transfers = Len(arg_df)
                             /\ ret.summary.total_transfers >= 1

\* C5 witness: the analysis of the empty transfer list returned None.
C5_Witness == Analyzed /\ arg_df = << >> /\ ret = None

\* the input transfers of which the result's set has a row
Matched(set) ==
    {i \in 1..Len(arg_df) :
        \E n \in 1..Len(set) : set[n].tx_hash = arg_df[i].tx_hash}

\* the summary, both timelines and the projection list are there, and they
\* cover every input transfer
RestProduced ==
    /\ ret.summary.total_transfers = Len(arg_df)
    /\ Len(ret.recent_transfers) = Len(arg_df)
    /\ {ret.recent_transfers[n].tx_hash : n \in 1..Len(arg_df)}
          = {arg_df[i].tx_hash : i \in 1..Len(arg_df)}
    /\ ret.activity_timeline # << >>
    /\ ret.tokens_timeline # << >>

\* C6: with an empty suspicious (safe) directory the suspicious (safe) set is
\* empty and nothing is raised: the analysis returns its structure, with the
\* set of the other directory and the rest of the analysis in it.
C6_EmptyDirectoryGivesEmptySet ==
    (Analyzed /\ arg_df # << >>) =>
        /\ ret # None
        /\ DirectoryOf(store_suspicious) = << >> =>
              /\ ret.suspicious_transfers = << >>
              /\ ret.summary.suspicious_count = 0
              /\ Matched(ret.safe_transfers) = ListedTransfers(store_safe)
              /\ RestProduced
        /\ DirectoryOf(store_safe) = << >> =>
              /\ ret.safe_transfers = << >>
              /\ ret.summary.safe_count = 0
              /\ Matched(ret.suspicious_transfers)
                    = ListedTransfers(store_suspicious)
              /\ RestProduced

\* C6 witness: an analysis with an empty suspicious directory that found safe
\* transfers.
C6_Witness ==
    /\ Analyzed
    /\ arg_df # << >>
    /\ store_suspicious = << >>
    /\ ret.suspicious_transfers = << >>
    /\ ret.safe_transfers # << >>

\* C7: summary.suspicious_tokens is the number of distinct contract addresses
\* among the suspicious transfers and summary.suspicious_count the number of
\* suspicious transfers; k transfers of one and the same flagged contract
\* give suspicious_tokens = 1 and suspicious_count = k.
C7_SuspiciousTokensAndCount ==
    (Analyzed /\ arg_df # << >>) =>
        /\ ret.summary.suspicious_tokens
              = Cardinality({Lower(arg_df[i].contract_address) :
                                i \in ListedTransfers(store_suspicious)})
        /\ ret.summary.suspicious_count
              = Cardinality(ListedTransfers(store_suspicious))
        /\ ( /\ ListedTransfers(store_suspicious) = 1..Len(arg_df)
             /\ \A i \in 1..Len(arg_df) :
                   Lower(arg_df[i].contract_address)
                       = Lower(arg_df[1].contract_address) )
           => /\ ret.summary.suspicious_tokens = 1
              /\ ret.summary.suspicious_count = Len(arg_df)

\* the days of the input transfers
DaysOf(indices) == {DateOf(arg_df[i].block_timestamp) : i \in indices}

\* a timeline has one row for every day of the input, the days ascending
DenseAndSorted(timeline) ==
    /\ {timeline[k].date : k \in 1..Len(timeline)} = DaysOf(1..Len(arg_df))
    /\ \A k \in 1..(Len(timeline) - 1) : timeline[k].date < timeline[k + 1].date

\* the series of a timeline column is 0 on exactly the days without a
\* suspicious transfer, and the all-transfers series is positive on every day
ZeroFilled(timeline, all_col, susp_col) ==
    \A k \in 1..Len(timeline) :
        /\ timeline[k][all_col] >= 1
        /\ timeline[k][susp_col] >= 0
        /\ timeline[k][susp_col] = 0
              <=> timeline[k].date
                      \notin DaysOf(ListedTransfers(store_suspicious))

\* C8: the activity timeline and the token timeline have one row for every
\* day of the all-transfers series or of the suspicious series, a series is 0
\* on a day without activity of its kind, and the rows are ascending by date.
C8_TimelinesDenseAndSorted ==
    (Analyzed /\ arg_df # << >>) =>
        /\ DenseAndSorted(ret.activity_timeline)
        /\ DenseAndSorted(ret.tokens_timeline)
        /\ ZeroFilled(ret.activity_timeline,
                      "All Transfers", "Suspicious Transfers")
        /\ ZeroFilled(ret.tokens_timeline, "All Tokens", "Suspicious Tokens")

\* C8 witness: a timeline of two days, one with and one without a suspicious
\* transfer.
C8_Witness ==
    /\ Analyzed
    /\ arg_df # << >>
    /\ Len(ret.activity_timeline) = 2
    /\ ret.activity_timeline[1]["Suspicious Transfers"] = 0
    /\ ret.activity_timeline[2]["Suspicious Transfers"] > 0
    /\ ret.tokens_timeline[1]["Suspicious Tokens"] = 0

RECURSIVE SumPercent(_)
\* the sum of the percent column, in tenths of a percent
SumPercent(tags) ==
    IF tags = << >> THEN 0 ELSE Head(tags).percent + SumPercent(Tail(tags))

\* C9: for a non-empty suspicious set the percentages of suspicious_tags sum
\* to 100, within 0.1 per bucket.
C9_PercentagesSumTo100 ==
    (Analyzed /\ arg_df # << >> /\ ret.suspicious_transfers # << >>) =>
        LET sum == SumPercent(ret.suspicious_tags)
            tolerance == Len(ret.suspicious_tags)
        IN  /\ sum >= 1000 - tolerance
            /\ sum <= 1000 + tolerance

---------------------------------------------------------------------------
(* Properties of the projection list, checked under Spec *)

\* the first row of the directory with the contract address, letter case
\* ignored
FirstListed(table, address) ==
    LET d == DirectoryOf(table)
    IN  d[CHOOSE k \in 1..Len(d) :
              /\ Lower(d[k].contract_address) = Lower(address)
              /\ \A j \in 1..(k - 1) :
                    Lower(d[j].contract_address) # Lower(address)]

\* C11: no entry of recent_transfers has suspicious and safe both true, and a
\* transfer whose contract is in the suspicious and in the safe directory is
\* projected suspicious = true, safe = false, with the tag and the tag_1 of
\* the suspicious entry.
C11_SuspiciousTakesPrecedence ==
    (Analyzed /\ arg_df # << >>) =>
        \A n \in 1..Len(ret.recent_transfers) :
            LET p == ret.recent_transfers[n]
            IN  /\ ~ (p.suspicious /\ p.safe)
                /\ ( /\ Listed(store_suspicious, p.contract_address)
                     /\ Listed(store_safe, p.contract_address) )
                   => /\ p.suspicious
                      /\ ~ p.safe
                      /\ p.tag = FirstListed(store_suspicious,
                                             p.contract_address).tag
                      /\ p.tag_1 = FirstListed(store_suspicious,
                                               p.contract_address).tag_1

\* C11 witness: a transfer of a contract of both directories, projected as
\* suspicious and not safe, with the suspicious tag.
C11_Witness ==
    /\ Analyzed
    /\ arg_df # << >>
    /\ \E n \in 1..Len(ret.recent_transfers) :
          LET p == ret.recent_transfers[n]
          IN  /\ Listed(store_suspicious, p.contract_address)
              /\ Listed(store_safe, p.contract_address)
              /\ p.suspicious /\ ~ p.safe
              /\ p.tag = "High Risk" /\ p.tag_1 \in FraudTypes

\* the projected transfer has a row in the set
InSet(p, set) ==
    \E n \in 1..Len(set) : /\ set[n].tx_hash = p.tx_hash
                           /\ set[n].contract_address = p.contract_address

\* C12: a projected transfer shows tag "Caution" and tag_1 "No Detail"
\* exactly when it is in neither set; one that is in the suspicious or in the
\* safe set shows the tag of its directory entry, never "Caution".
C12_CautionOnlyWhenUnmatched ==
    (Analyzed /\ arg_df # << >>) =>
        \A n \in 1..Len(ret.recent_transfers) :
            LET p == ret.recent_transfers[n]
                in_suspicious == InSet(p, ret.suspicious_transfers)
                in_safe == InSet(p, ret.safe_transfers)
            IN  /\ (p.tag = "Caution" /\ p.tag_1 = "No Detail")
                      <=> (~ in_suspicious /\ ~ in_safe)
                /\ in_suspicious =>
                      /\ p.tag = FirstListed(store_suspicious,
                                             p.contract_address).tag
                      /\ p.tag # "Caution"
                /\ (in_safe /\ ~ in_suspicious) =>
                      /\ p.tag = FirstListed(store_safe, p.contract_address).tag
                      /\ p.tag # "Caution"

\* C12 witness: one transfer of neither set, shown as Caution / No Detail,
\* and one of the safe set, shown as Safe.
C12_Witness ==
    /\ Analyzed
    /\ Len(arg_df) = 2
    /\ \E n, m \in 1..2 :
          /\ ret.recent_transfers[n].tag = "Caution"
          /\ ret.recent_transfers[n].tag_1 = "No Detail"
          /\ ~ InSet(ret.recent_transfers[n], ret.suspicious_transfers)
          /\ ~ InSet(ret.recent_transfers[n], ret.safe_transfers)
          /\ ret.recent_transfers[m].tag = "Safe"
          /\ ret.recent_transfers[m].safe

\* C20: the safe set of the analysis is what identify_safe_transfers gives
\* for the transfer list and the safe directory alone, whatever the
\* suspicious directory holds, and a transfer whose contract is in both
\* directories is in the suspicious set and in the safe set.
C20_SafeSetIndependent ==
    (Analyzed /\ arg_df # << >>) =>
        /\ ret.safe_transfers = identify_safe_transfers(arg_df, store_safe).ret
        /\ Matched(ret.safe_transfers) = ListedTransfers(store_safe)
        /\ \A i \in ListedTransfers(store_suspicious)
                        \cap ListedTransfers(store_safe) :
              /\ i \in Matched(ret.suspicious_transfers)
              /\ i \in Matched(ret.safe_transfers)

\* C20 witness: a transfer of a contract of both directories that the
\* analysis has in its suspicious set and in its safe set.
C20_Witness ==
    /\ Analyzed
    /\ arg_df # << >>
    /\ store_suspicious # << >>
    /\ \E i \in 1..Len(arg_df) :
          /\ i \in ListedTransfers(store_suspicious)
          /\ i \in ListedTransfers(store_safe)
          /\ i \in Matched(ret.suspicious_transfers)
          /\ i \in Matched(ret.safe_transfers)

\* C25: summary.suspicious_count and summary.safe_count are each at most
\* summary.total_transfers: the percentage of high risk transfers of the
\* dashboard, suspicious_count / total_transfers * 100, is at most 100.
C25_CountsAtMostTotal ==
    (Analyzed /\ arg_df # << >>) =>
        /\ ret.summary.suspicious_count <= ret.summary.total_transfers
        /\ ret.summary.safe_count <= ret.summary.total_transfers
        /\ ret.summary.suspicious_count * 100 <= 100 * ret.summary.total_transfers

\* the entries of recent_transfers that are flagged suspicious
Flagged(recent_transfers) ==
    {n \in 1..Len(recent_transfers) : recent_transfers[n].suspicious}

\* C26: summary.suspicious_count is the number of entries of
\* recent_transfers whose suspicious flag is true.
C26_SummaryAgreesWithList ==
    (Analyzed /\ arg_df # << >>) =>
        ret.summary.suspicious_count
            = Cardinality(Flagged(ret.recent_transfers))

---------------------------------------------------------------------------
(* Properties of the token counts, checked under SpecCase *)

\* the contracts of the caller's transfers, letter case set aside
ContractsOf(df) == {Lower(df[i].contract_address) : i \in 1..Len(df)}

\* the transfers of the caller's list of the contract a, letter case set aside
TransfersOfContract(df, a) ==
    Cardinality({i \in 1..Len(df) : Lower(df[i].contract_address) = a})

\* C27: unique_tokens and top_tokens are computed from the transfers with
\* their contract addresses folded to lower case, whatever the directories
\* hold: addresses that differ only in letter case are one contract in both.
C27_CountsFoldCase ==
    (Analyzed /\ arg_df # << >>) =>
        /\ ret.summary.unique_tokens = Cardinality(ContractsOf(arg_df))
        /\ \A k \in 1..Len(ret.top_tokens) :
              /\ ret.top_tokens[k].contract_address \in ContractsOf(arg_df)
              /\ ret.top_tokens[k].count
                    = TransfersOfContract(arg_df,
                                          ret.top_tokens[k].contract_address)

---------------------------------------------------------------------------
(* Properties of the search history, checked under SpecHistory *)

History == get_cookie(session_state, "search_history", << >>)

SamePair(e, f) ==
    Lower(e.address) = Lower(f.address) /\ e.blockchain = f.blockchain

\* the time of the latest call for the pair of call i
LatestCall(i) ==
    CHOOSE j \in 1..Len(searches) :
        /\ SamePair(searches[j], searches[i])
        /\ \A k \in 1..Len(searches) :
              SamePair(searches[k], searches[i]) => k <= j

\* the calls that are the latest of their pair
LatestCalls == {i \in 1..Len(searches) : LatestCall(i) = i}

\* the calls the history has an entry of: the call at time t made the entry
\* of timestamp t
Recorded == {i \in 1..Len(searches) :
                \E k \in 1..Len(History) :
                    /\ History[k].timestamp = i - 1
                    /\ History[k].address = searches[i].address
                    /\ History[k].blockchain = searches[i].blockchain}

\* C22: after any sequence of add_to_search_history calls from the empty
\* history, the history has at most 100 (HistoryCap) entries, the newest
\* first, and the entries that are missing are the oldest: every search
\* that is not recorded is older than every recorded one, or was repeated.
C22_HistoryBounded ==
    /\ Len(History) <= HistoryCap
    /\ \A k \in 1..(Len(History) - 1) :
          History[k].timestamp > History[k + 1].timestamp
    /\ Cardinality(Recorded) = Len(History)
    /\ Recorded \subseteq LatestCalls
    /\ Len(History) = IF Cardinality(LatestCalls) < HistoryCap
                      THEN Cardinality(LatestCalls) ELSE HistoryCap
    /\ \A i \in LatestCalls \ Recorded : \A j \in Recorded : i < j

\* C22 witness: more pairs than the limit were searched, none twice, and the
\* history holds the limit's worth of them, the first search dropped.
C22_Witness ==
    /\ Cardinality(LatestCalls) = Len(searches)
    /\ Len(searches) > HistoryCap
    /\ Len(History) = HistoryCap
    /\ 1 \notin Recorded

\* C23: after any sequence of add_to_search_history calls from the empty
\* history, the history has at most one entry per address (letter case set
\* aside) and blockchain, and the entry of the latest call is at index 0.
C23_OneEntryPerPair ==
    /\ \A j, k \in 1..Len(History) :
          SamePair(History[j], History[k]) => j = k
    /\ searches # << >> =>
          /\ History # << >>
          /\ History[1] = [timestamp |-> Len(searches) - 1,
                           address |-> searches[Len(searches)].address,
                           blockchain |-> searches[Len(searches)].blockchain]

\* C23 witness: a pair was searched again in another letter case after
\* another pair, and its one entry, of the new spelling, is at the front.
C23_Witness ==
    /\ Len(searches) = 3
    /\ SamePair(searches[1], searches[3])
    /\ searches[1].address # searches[3].address
    /\ ~ SamePair(searches[1], searches[2])
    /\ Len(History) = 2
    /\ History[1].address = searches[3].address
    /\ History[2].address = searches[2].address

---------------------------------------------------------------------------
(* Properties of the page, checked under SpecRun *)

\* the results the session holds
Results == get_cookie(session_state, "current_results", None)

\* C21: every row of the Recent Transfers table has a red status badge
\* exactly when its transfer is suspicious, a green one exactly when it is
\* safe and a yellow one exactly when it is unclassified ("Caution").
C21_BadgeFollowsClassification ==
    shown # None =>
        \A k \in 1..Len(shown.rows) :
            LET row == shown.rows[k].row
                color == shown.rows[k].status_color
            IN  /\ (color = "#b71c1c") <=> row.suspicious
                /\ (color = "#2e7d32") <=> row.safe
                /\ (color = "#FFD700") <=> (~ row.suspicious /\ ~ row.safe)
                /\ (color = "#FFD700") <=> (row.tag = "Caution")

\* C21 witness: a page of a search's results with a red row of the tag
\* Unknown, a green row and a yellow row.
C21_Witness ==
    /\ shown # None
    /\ op = "search_button"
    /\ \E i, j, k \in 1..Len(shown.rows) :
          /\ shown.rows[i].row.suspicious
          /\ shown.rows[i].row.tag = "Unknown"
          /\ shown.rows[i].status_color = "#b71c1c"
          /\ shown.rows[j].row.safe
          /\ shown.rows[j].status_color = "#2e7d32"
          /\ shown.rows[k].row.tag = "Caution"
          /\ shown.rows[k].status_color = "#FFD700"

\* C24: a run that handles the Analyze button removes the stored results
\* first, and ends holding the results of its own search or no results; the
\* table it leaves on the page is of those results.
C24_NoStaleResults ==
    op = "search_button" =>
        /\ pc = "search" => ~ Stored(session_state, "current_results")
        /\ Stored(session_state, "current_results") =>
              /\ arg_address # ""
              /\ ret # None
              /\ Results = ret
              /\ Len(ret.recent_transfers) = Len(arg_df)
              /\ \A k \in 1..Len(arg_df) :
                    ret.recent_transfers[k].tx_hash = arg_df[k].tx_hash
        /\ (pc = "idle" /\ shown # None) =>
              /\ Stored(session_state, "current_results")
              /\ shown = Table(ret, shown.current_page)

\* C24 witness: the Analyze button was pressed while the table of earlier
\* results was on the page, and the stored results are gone.
C24_Witness ==
    /\ op = "search_button"
    /\ pc = "search"
    /\ shown # None
    /\ ~ Stored(session_state, "current_results")

\* C28: at the end of every script run the session holds current_results
\* only together with has_searched = True.
C28_ResultsImplySearched ==
    (pc = "idle" /\ Stored(session_state, "current_results")) =>
        /\ Stored(session_state, "has_searched")
        /\ session_state["has_searched"] = TRUE

\* C28 witness: a run of the Analyze button after the example was shown ended
\* with stored results and has_searched = True.
C28_Witness ==
    /\ pc = "idle"
    /\ op = "search_button"
    /\ Len(searches) >= 2
    /\ Stored(session_state, "current_results")
    /\ Stored(session_state, "has_searched")

\* ceil(n / 5)
CeilPages(n) ==
    CHOOSE k \in 0..n : transfers_per_page * (k - 1) < n
                          /\ n <= transfers_per_page * k

RECURSIVE PagesUpTo(_, _)
\* the rows of the pages 1..page, one page after the other
PagesUpTo(recent_transfers, page) ==
    IF page = 0 THEN << >>
    ELSE PagesUpTo(recent_transfers, page - 1)
            \o PageRows(recent_transfers, page)

\* C30: for a list of n >= 1 projected transfers the table has ceil(n / 5)
\* pages, the page p shows the entries (p-1)*5 .. min(p*5, n) - 1 of the list,
\* at least one and at most 5, and the pages one after the other are the list.
C30_PagesPartitionList ==
    (pc = "idle" /\ shown # None) =>
        LET recent_transfers == Results.recent_transfers
            n == Len(recent_transfers)
            p == shown.current_page
            last == IF p * transfers_per_page < n
                    THEN p * transfers_per_page ELSE n
        IN  /\ n >= 1
            /\ shown.total_pages = CeilPages(n)
            /\ p \in 1..shown.total_pages
            /\ Len(shown.rows) = last - (p - 1) * transfers_per_page
            /\ Len(shown.rows) \in 1..transfers_per_page
            /\ \A k \in 1..Len(shown.rows) :
                  shown.rows[k].row
                      = recent_transfers[(p - 1) * transfers_per_page + k]
            /\ PagesUpTo(recent_transfers, shown.total_pages)
                  = recent_transfers

\* C30 witness: the third and last page of a list of 11 entries shows its
\* one last entry.
C30_Witness ==
    /\ pc = "idle"
    /\ shown # None
    /\ Len(Results.recent_transfers) = 11
    /\ shown.total_pages = 3
    /\ shown.current_page = 3
    /\ Len(shown.rows) = 1
    /\ shown.rows[1].row = Results.recent_transfers[11]

---------------------------------------------------------------------------
(* Properties of the sentinels, checked under SpecSentinel *)

\* the value of a column of a directory row, or the sentinel when the
\* directory data has no such column
ValueOr(d, col, sentinel) == IF col \in DOMAIN d THEN d[col] ELSE sentinel

---------------------------------------------------------------------------
(* Properties of a call on two chains, checked under SpecMixed *)

\* C15: a classify call whose transfer list has transfers of two chains
\* fails: an error leaves the call, and the list is not classified against
\* the directory of one chain.
C15_MixedChainsFail ==
    ( /\ Returned("identify_suspicious_transfers")
            \/ Returned("identify_safe_transfers")
      /\ \E i, j \in 1..Len(arg_df) :
            arg_df[i].blockchain # arg_df[j].blockchain )
    => raised

---------------------------------------------------------------------------
(* Properties of the collaborators, checked under SpecCollab *)

\* the rows of the chain asked for that the table of the running loader has
RowsAsked == FetchRows(TableOf(op), arg_blockchain)

\* the last page the loop of a loader asks for: the first that is not full
LastRequested == Len(RowsAsked) \div page_size

\* the store or the Transfer Source could not be reached: there is no
\* client, the request for a page that is asked for raises, the node is not
\* connected or a request to it raises
Unreachable ==
    \/ /\ op \in Loaders
       /\ \/ supabase = None
          \/ \E k \in supabase.raises_on : k <= LastRequested
    \/ /\ op = "get_token_transfers"
       /\ (~ alchemy.connected \/ alchemy.raises)

\* C14: no exception leaves load_suspicious_tokens_by_blockchain,
\* load_safe_tokens_by_blockchain or get_token_transfers, and each returns an
\* empty table when its store or source cannot be reached: no client, or a
\* request that raises, on whatever page.
C14_UnreachableGivesEmpty ==
    /\ raised = FALSE
    /\ (pc = "done" /\ Unreachable) => ret = EmptyDF

\* C14 witness: a loader whose request for the second page raised, after
\* the rows of the first were collected, returned the empty table.
C14_Witness ==
    /\ pc = "done"
    /\ op \in Loaders
    /\ supabase = Client({1})
    /\ collected # << >>
    /\ ret = EmptyDF
    /\ raised = FALSE

\* the transfers the Transfer Source answered with
Received ==
    TransfersOf(alchemy.outgoing) \o TransfersOf(alchemy.incoming)

\* those of them that have a timestamp of the trailing seven days
InWindow ==
    {i \in 1..Len(Received) :
        /\ "blockTimestamp" \in DOMAIN Received[i].metadata
        /\ Received[i].metadata.blockTimestamp >= Now - SevenDays}

\* the received transfers the result has a record of
Kept == {i \in 1..Len(Received) :
            \E k \in 1..Len(ret) : ret[k].tx_hash = Received[i].hash}

\* C17: get_token_transfers returns at most 100 (FetchCap) records, each of
\* the trailing seven days, the most recent first, and they are the most
\* recent of the in-window transfers received, outgoing and incoming.
C17_FetchWindowCapOrder ==
    (Returned("get_token_transfers") /\ ~ Unreachable) =>
        /\ Len(ret) <= FetchCap
        /\ \A k \in 1..Len(ret) : ret[k].timestamp >= Now - SevenDays
        /\ \A k \in 1..(Len(ret) - 1) : ret[k].timestamp >= ret[k + 1].timestamp
        /\ Kept \subseteq InWindow
        /\ Cardinality(Kept) = Len(ret)
        /\ Len(ret) = IF Cardinality(InWindow) < FetchCap
                      THEN Cardinality(InWindow) ELSE FetchCap
        /\ \A i \in InWindow \ Kept : \A k \in 1..Len(ret) :
              Received[i].metadata.blockTimestamp <= ret[k].timestamp

\* C17 witness: a fetch that kept FetchCap records of both legs, left out an
\* older in-window transfer and one older than seven days.
C17_Witness ==
    /\ Returned("get_token_transfers")
    /\ ~ Unreachable
    /\ Len(ret) = FetchCap
    /\ InWindow \ Kept # {}
    /\ \E i \in 1..Len(Received) :
          /\ "blockTimestamp" \in DOMAIN Received[i].metadata
          /\ i \notin InWindow
    /\ \E j, k \in 1..Len(ret) :
          ret[j].from_address = "0xholder" /\ ret[k].to_address = "0xholder"

\* C29: get_token_transfers returns each transfer received from the source
\* at most once: a transfer the source reports in its outgoing and in its
\* incoming answer, such as one from the address to itself, has one record.
C29_EachLegOnce ==
    Returned("get_token_transfers") =>
        \A j, k \in 1..Len(ret) : ret[j].tx_hash = ret[k].tx_hash => j = k

\* C18: for every chain of the interface, every record get_token_transfers
\* returns carries the chain that was asked for in its blockchain field.
C18_RecordsCarryRequestedChain ==
    Returned("get_token_transfers") =>
        \A k \in 1..Len(ret) : ret[k].blockchain = arg_blockchain

---------------------------------------------------------------------------
(* Properties of the paging, checked under SpecLoadFair *)

\* a request of the running loader has raised
PageRaised == \E k \in supabase.raises_on : k <= LastRequested

\* the loop has collected the pages before current_page, all of them full,
\* each once and in page order; when it has ended, it has collected every
\* row of the chain and ended on the first page that is not full
PagesCollected ==
    /\ (op \in Loaders /\ pc = "paging") =>
          /\ current_page * page_size <= Len(RowsAsked)
          /\ collected = SubSeq(RowsAsked, 1, current_page * page_size)
    /\ ( /\ op \in Loaders
         /\ supabase # None
         /\ pc = "loaded" \/ (pc = "done" /\ ~ PageRaised) ) =>
          /\ collected = RowsAsked
          /\ current_page = LastRequested
          /\ Len(PageData(TableOf(op), arg_blockchain, current_page)) < page_size
          /\ \A q \in 0..(current_page - 1) :
                Len(PageData(TableOf(op), arg_blockchain, q)) = page_size

\* C19: a loader asks for pages of page_size rows from page 0 on and stops
\* at the first page that is empty or shorter than page_size; it terminates,
\* and the rows collected are the rows of the pages up to that one, each once
\* and in page order.
C19_PagingTerminatesExact == [] PagesCollected /\ <> (pc = "done")

\* C19 witness: a loader that ended on its third page, with every row of the
\* table collected.
C19_Witness ==
    /\ pc = "done"
    /\ op \in Loaders
    /\ supabase = Client({})
    /\ current_page = 2
    /\ Len(collected) > page_size
    /\ collected = TableOf(op)
    /\ Len(ret) = Len(collected)

---------------------------------------------------------------------------
(* Properties of the ranking, checked under SpecTop *)

\* the number of input transfers of a contract address
Transfers(a) == Cardinality({i \in 1..Len(arg_df) : arg_df[i].contract_address = a})

\* the place of the first input transfer of a contract address
FirstSeen(a) ==
    CHOOSE i \in 1..Len(arg_df) :
        /\ arg_df[i].contract_address = a
        /\ \A j \in 1..(i - 1) : arg_df[j].contract_address # a

\* top_tokens holds the min(5, number of contracts) contracts of the highest
\* transfer counts, each once and with its count, the counts descending
Ranking(top) ==
    LET contracts == {arg_df[i].contract_address : i \in 1..Len(arg_df)}
        listed == {top[k].contract_address : k \in 1..Len(top)}
    IN  /\ Len(top) <= TopN
        /\ Len(top) = IF Cardinality(contracts) < TopN
                      THEN Cardinality(contracts) ELSE TopN
        /\ Cardinality(listed) = Len(top)
        /\ listed \subseteq contracts
        /\ \A k \in 1..Len(top) : top[k].count = Transfers(top[k].contract_address)
        /\ \A k \in 1..(Len(top) - 1) : top[k].count >= top[k + 1].count
        /\ \A a \in contracts \ listed : \A k \in 1..Len(top) :
              Transfers(a) <= top[k].count

\* of two contracts with the same count, the one met first in the transfer
\* list comes first, and is the one kept
TiesByFirstSeen(top) ==
    LET contracts == {arg_df[i].contract_address : i \in 1..Len(arg_df)}
        listed == {top[k].contract_address : k \in 1..Len(top)}
    IN  /\ \A k \in 1..(Len(top) - 1) :
              top[k].count = top[k + 1].count =>
                  FirstSeen(top[k].contract_address)
                      < FirstSeen(top[k + 1].contract_address)
        /\ \A a \in contracts \ listed : \A k \in 1..Len(top) :
              Transfers(a) = top[k].count =>
                  FirstSeen(top[k].contract_address) < FirstSeen(a)

====
